---- MODULE Spec2Model ----
(***************************************************************************)
(* Model of the backtesting core of blockquant (src/src/drg):              *)
(*   - Context           (model.rs)    the simulation state container      *)
(*   - BrokerLocal       (broker.rs)   one producer task per symbol        *)
(*   - Strategy          (strategy.rs) init, the dispatch loop, buy/sell,  *)
(*                                     process_order                       *)
(* The bus is tokio's unbounded mpsc channel: a FIFO that the producer     *)
(* tasks and the dispatch loop itself (buy/sell, the synthesized Finish)   *)
(* send to concurrently, and that only the dispatch loop receives from.    *)
(*                                                                         *)
(* f64 values are modelled exactly, as fractions <<n, d>> in lowest terms  *)
(* with d > 0; d = 0 encodes the non-finite values (<<0,0>> NaN,           *)
(* <<1,0>> +inf, <<-1,0>> -inf), so that a division by zero is a value of  *)
(* the model as it is a value of the program.  Rounding is not modelled.   *)
(***************************************************************************)
EXTENDS Integers, Sequences, FiniteSets, TLC

\* ------------------------------------------------------------------ f64 --

Abs(x) == IF x < 0 THEN -x ELSE x

Sgn(x) == IF x > 0 THEN 1 ELSE IF x < 0 THEN -1 ELSE 0

RECURSIVE Gcd(_, _)
Gcd(a, b) == IF b = 0 THEN a ELSE Gcd(b, a % b)

\* the fraction n/d; d = 0 gives NaN (n = 0) or a signed infinity
Frac(n, d) ==
    IF d = 0 THEN <<Sgn(n), 0>>
    ELSE LET g == Gcd(Abs(n), Abs(d))
             s == Sgn(d)
         IN  <<(s * n) \div g, (s * d) \div g>>

F(n) == <<n, 1>>

NaN == <<0, 0>>

IsNaN(x) == x = NaN

IsFinite(x) == x[2] # 0

FAdd(x, y) ==
    IF IsNaN(x) \/ IsNaN(y) THEN NaN
    ELSE IF ~IsFinite(x) THEN (IF ~IsFinite(y) /\ y # x THEN NaN ELSE x)
    ELSE IF ~IsFinite(y) THEN y
    ELSE Frac(x[1] * y[2] + y[1] * x[2], x[2] * y[2])

FNeg(x) == <<-x[1], x[2]>>

FSub(x, y) == FAdd(x, FNeg(y))

FMul(x, y) ==
    IF IsNaN(x) \/ IsNaN(y) THEN NaN
    ELSE IF ~IsFinite(x) \/ ~IsFinite(y) THEN <<Sgn(x[1]) * Sgn(y[1]), 0>>
    ELSE Frac(x[1] * y[1], x[2] * y[2])

FDiv(x, y) ==
    IF IsNaN(x) \/ IsNaN(y) THEN NaN
    ELSE IF ~IsFinite(x) THEN (IF ~IsFinite(y) THEN NaN
                               ELSE <<x[1] * (IF y[1] < 0 THEN -1 ELSE 1), 0>>)
    ELSE IF ~IsFinite(y) THEN F(0)
    ELSE Frac(x[1] * y[2], x[2] * y[1])

\* x < y as f64 compares: false when either side is NaN
FLt(x, y) ==
    IF IsNaN(x) \/ IsNaN(y) THEN FALSE
    ELSE IF ~IsFinite(x) THEN x[1] < 0 /\ y # x
    ELSE IF ~IsFinite(y) THEN y[1] > 0
    ELSE x[1] * y[2] < y[1] * x[2]

FGt(x, y) == FLt(y, x)

\* ---------------------------------------------------------- configuration --
\* StrategyParams as main() builds it.  The amounts are scaled down from
\* main.rs (4000, 0.03, 0.001) so that a few fills exhaust the cash:
\* fixed mode commits 250 * 2/5 = 100 per order, fee 1/4, so one order costs 125.

Symbols == {"BTCUSDT", "ETHUSDT"}

Intervals == <<"1d">>

\* the interval names BrokerLocal::start accepts
ValidIntervals ==
    {"1m", "3m", "5m", "15m", "30m", "1h", "2h", "4h", "6h", "8h", "12h", "1d",
     "3d", "1w", "1M"}

\* format!("{}_{}", symbol, interval)
ItemOf(symbol, interval) == <<symbol, interval>>

Items == {ItemOf(s, Intervals[i]) : s \in Symbols, i \in 1..Len(Intervals)}

StrategyParams ==
    [initial_capital              |-> F(250),
     is_use_percent_of_equity     |-> FALSE,
     percent_of_equity            |-> Frac(1, 2),
     percent_of_every_trade_money |-> Frac(2, 5),
     n_atr_sl                     |-> F(2),
     n_atr_tp                     |-> F(5),
     trading_fee                  |-> Frac(1, 4)]

\* --------------------------------------------------------------- bounds --
\* the producers send at most MaxBars Candles, over all symbols and intervals
MaxBars == 2

\* seconds added to the idle clock by one Tick
TickSecs == 20

\* the close of the k-th bar the store holds of a symbol
CloseOf(k) == F(50 * k)

\* the quantity argument the strategy passes to buy/sell: None
QtyArgs == {<<>>}

\* the ATR the strategy caches
AtrValue == F(10)

\* what get_timestamp_ms() returns in init
WallClockMs == {1000}

\* ----------------------------------------------------------- data model --
\* Option<T>: <<>> is None, <<v>> is Some(v)

Candle(symbol, interval, timestamp, close) ==
    [symbol |-> symbol, interval |-> interval, timestamp |-> timestamp,
     close |-> close]

EventFinish == [type |-> "EventFinish"]

EventCandle(c) == [type |-> "EventCandle", v |-> c]

EventPosition(p) == [type |-> "EventPosition", v |-> p]

EventOrder(o) == [type |-> "EventOrder", v |-> o]

EventEquity(e) == [type |-> "EventEquity", v |-> e]

EventTradeRecord(t) == [type |-> "EventTradeRecord", v |-> t]

\* a HashMap entry set or overwritten
Put(map, k, v) == [x \in DOMAIN map \cup {k} |-> IF x = k THEN v ELSE map[x]]

\* entry(k).or_insert_with(Vec::new).push(v)
PushTo(map, k, v) ==
    Put(map, k, IF k \in DOMAIN map THEN Append(map[k], v) ELSE <<v>>)

EmptyMap == [x \in {} |-> <<>>]

\* Context::new
ContextNew ==
    [candles |-> EmptyMap, positions |-> EmptyMap, trade_records |-> EmptyMap,
     equities |-> EmptyMap, atrs |-> EmptyMap]

\* mutant: the new Candle goes to the front of the history
push_candle_front(ctx, candle) ==
    LET item == ItemOf(candle.symbol, candle.interval)
    IN  [ctx EXCEPT !.candles =
            Put(@, item, IF item \in DOMAIN @ THEN <<candle>> \o @[item]
                         ELSE <<candle>>)]

push_candle(ctx, candle) ==
    [ctx EXCEPT !.candles =
        PushTo(@, ItemOf(candle.symbol, candle.interval), candle)]

push_equity(ctx, equity) ==
    [ctx EXCEPT !.equities = PushTo(@, equity.item, equity)]

push_trade_record(ctx, trade_record) ==
    [ctx EXCEPT !.trade_records = PushTo(@, trade_record.item, trade_record)]

\* mutant: the record is appended to the history
update_trade_record_push(ctx, trade_record) ==
    [ctx EXCEPT !.trade_records = PushTo(@, trade_record.item, trade_record)]

\* replaces the last record of the item's history; nothing when there is none
update_trade_record(ctx, trade_record) ==
    LET item == trade_record.item
        recs == ctx.trade_records
    IN  IF item \in DOMAIN recs /\ Len(recs[item]) > 0
        THEN [ctx EXCEPT !.trade_records =
                 Put(@, item, [recs[item] EXCEPT ![Len(recs[item])] = trade_record])]
        ELSE ctx

get_last_equity(ctx, item) ==
    IF item \in DOMAIN ctx.equities /\ Len(ctx.equities[item]) > 0
    THEN <<ctx.equities[item][Len(ctx.equities[item])]>>
    ELSE <<>>

get_last_trade_record(ctx, item) ==
    IF item \in DOMAIN ctx.trade_records /\ Len(ctx.trade_records[item]) > 0
    THEN <<ctx.trade_records[item][Len(ctx.trade_records[item])]>>
    ELSE <<>>

\* mutant: the Position is stored under every item that has one
update_position_all(ctx, position) ==
    [ctx EXCEPT !.positions =
        [x \in DOMAIN @ \cup {position.item} |-> position]]
update_position(ctx, position) ==
    [ctx EXCEPT !.positions = Put(@, position.item, position)]

update_atr(ctx, item, atr) == [ctx EXCEPT !.atrs = Put(@, item, atr)]

get_position(ctx, item) ==
    IF item \in DOMAIN ctx.positions THEN <<ctx.positions[item]>> ELSE <<>>

get_atr(ctx, item) ==
    IF item \in DOMAIN ctx.atrs THEN <<ctx.atrs[item]>> ELSE <<>>

\* ---------------------------------------------------------------- state --
VARIABLES
    params,     \* Strategy.params
    context,    \* Strategy.context
    bus,        \* the channel: events sent and not yet received
    outbox,     \* events the current handler sends, in order, not yet in the channel
    pc,         \* the runtime: "new", "init", "loop", "join", "returned"
    idle,       \* seconds since start_time
    producer,   \* per symbol: the producer task's position
    emitted,    \* history: per item, the Candles its producer has sent
    decided,    \* history: per item, what on_candle did at each dispatched Candle
    margins,    \* history: per item, the margin of each accepted fill
    calls,      \* history: the buy/sell calls of the last handler
    callbacks,  \* history: how often each callback has run
    finish_sent \* history: Finish events the loop has sent

vars ==
    <<params, context, bus, outbox, pc, idle, producer, emitted, decided,
      margins, calls, callbacks, finish_sent>>

\* ------------------------------------------------------ execution engine --
\* An engine call works on m = [ctx, out]: the context, and the events sent
\* so far through broker.event_sender.

send(m, event) == [m EXCEPT !.out = Append(@, event)]

Position(item, size, price, highest, lowest, stop_loss, take_profit, timestamp) ==
    [item |-> item, size |-> size, price |-> price, highest |-> highest,
     lowest |-> lowest, stop_loss |-> stop_loss, take_profit |-> take_profit,
     timestamp |-> timestamp]

TradeRecord(item, side, size, price_open, time_open, price_close, time_close,
            label_close) ==
    [item |-> item, side |-> side, size |-> size, price_open |-> price_open,
     time_open |-> time_open, price_close |-> price_close,
     time_close |-> time_close, label_close |-> label_close]

Equity(item, timestamp, equity_value, close_latest, pos_size, cash_aval) ==
    [item |-> item, timestamp |-> timestamp, equity_value |-> equity_value,
     close_latest |-> close_latest, pos_size |-> pos_size, cash_aval |-> cash_aval]

Order(item, price, qty, timestamp) ==
    [item |-> item, price |-> price, qty |-> qty, timestamp |-> timestamp]

\* mutant: a fill of the opposite sign is netted against the position
process_order_position_netting(m, order) ==
    LET pos == get_position(m.ctx, order.item)
        atr == get_atr(m.ctx, order.item)
    IN  IF pos # <<>> /\ atr # <<>>
        THEN LET position == [pos[1] EXCEPT !.size = FAdd(@, order.qty),
                                            !.timestamp = order.timestamp]
             IN  send([m EXCEPT !.ctx = update_position(@, position)],
                      EventPosition(position))
        ELSE m

\* process_order, first part: the position (only with a position and a cached ATR)
process_order_position(m, order) ==
    LET item == order.item
        qty == order.qty
        price == order.price
        pos == get_position(m.ctx, item)
        atr == get_atr(m.ctx, item)
    IN  IF pos # <<>> /\ atr # <<>>
        THEN LET last_pos == pos[1]
                 value == atr[1]
                 pos_avg_price ==
                     FDiv(FAdd(FMul(last_pos.size, last_pos.price), FMul(qty, price)),
                          FAdd(last_pos.size, qty))
                 same == FGt(FMul(last_pos.size, qty), F(0))
                 position ==
                     Position(item,
                         IF same THEN FAdd(last_pos.size, qty) ELSE qty,
                         IF same THEN pos_avg_price ELSE price,
                         IF FGt(last_pos.highest, F(0)) THEN last_pos.highest ELSE price,
                         IF FGt(last_pos.lowest, F(0)) THEN last_pos.lowest ELSE price,
                         FSub(pos_avg_price, FMul(params.n_atr_sl, value)),
                         FAdd(pos_avg_price, FMul(params.n_atr_tp, value)),
                         order.timestamp)
             IN  send([m EXCEPT !.ctx = update_position(@, position)],
                      EventPosition(position))
        ELSE m

\* process_order, second part: the trade record
process_order_trade_record(m, order) ==
    LET item == order.item
        qty == order.qty
        price == order.price
        timestamp == order.timestamp
        last == get_last_trade_record(m.ctx, item)
        side == IF FGt(qty, F(0)) THEN "buy" ELSE "sell"
        fresh == TradeRecord(item, side, qty, price, timestamp, F(0), 0, "")
    IN  IF last # <<>>
        THEN LET last_trade_record == last[1]
             IN  IF FGt(FMul(last_trade_record.size, qty), F(0))
                 THEN LET size == FAdd(last_trade_record.size, qty)
                          price_open ==
                              FDiv(FAdd(FMul(last_trade_record.price_open,
                                             last_trade_record.size),
                                        FMul(price, qty)),
                                   size)
                          tr == TradeRecord(item, last_trade_record.side, size,
                                            price_open, timestamp, F(0), 0, "")
                      IN  [m EXCEPT !.ctx = update_trade_record(@, tr)]
                 ELSE LET tr_close ==
                              TradeRecord(item, last_trade_record.side,
                                  last_trade_record.size, last_trade_record.price_open,
                                  last_trade_record.time_open, price, timestamp, "Close")
                      IN  send([m EXCEPT !.ctx = update_trade_record(@, tr_close)],
                               EventTradeRecord(fresh))
        ELSE send(m, EventTradeRecord(fresh))

\* mutant: the Order event is not sent
process_order_no_order(m, order) ==
    process_order_trade_record(process_order_position(m, order), order)

process_order(m, order) ==
    send(process_order_trade_record(process_order_position(m, order), order),
         EventOrder(order))

\* mutant: a positive quantity argument is the margin, however large
order_margin_unclamped(qty) ==
    LET qty_value == IF qty # <<>> THEN qty[1] ELSE F(0)
        margin == IF params.is_use_percent_of_equity
                  THEN FMul(params.initial_capital, params.percent_of_equity)
                  ELSE FMul(params.initial_capital, params.percent_of_every_trade_money)
    IN  IF FLt(F(0), qty_value) THEN qty_value ELSE margin

\* the margin buy and sell commit: the default order size, or the quantity
\* argument when it is positive and smaller
order_margin(qty) ==
    LET qty_value == IF qty # <<>> THEN qty[1] ELSE F(0)
        margin == IF params.is_use_percent_of_equity
                  THEN FMul(params.initial_capital, params.percent_of_equity)
                  ELSE FMul(params.initial_capital, params.percent_of_every_trade_money)
    IN  IF FLt(F(0), qty_value) /\ FLt(qty_value, margin) THEN qty_value ELSE margin

\* the Equity the cash check reads: the item's latest, or initial capital
last_equity_of(ctx, item, timestamp) ==
    LET last_one == get_last_equity(ctx, item)
    IN  IF last_one # <<>> THEN last_one[1]
        ELSE Equity(item, timestamp, params.initial_capital, F(0), F(0),
                    params.initial_capital)

\* mutant: the fee is not charged
order_cost_no_fee(margin) == margin

order_cost(margin) == FMul(margin, FAdd(F(1), params.trading_fee))

\* mutant: an order that costs exactly the cash is accepted
accepts_equal(ctx, item, timestamp, qty) ==
    ~FLt(last_equity_of(ctx, item, timestamp).cash_aval, order_cost(order_margin(qty)))

\* the cash check of buy and sell
accepts(ctx, item, timestamp, qty) ==
    FLt(order_cost(order_margin(qty)), last_equity_of(ctx, item, timestamp).cash_aval)

\* mutant: buy fills the order without the cash check
buy_unchecked(m, item, price, timestamp, qty) ==
    LET margin == order_margin(qty)
        last_equity == last_equity_of(m.ctx, item, timestamp)
        q == FDiv(margin, price)
        order == Order(item, price, q, timestamp)
        equity ==
            Equity(item, timestamp,
                FSub(last_equity.equity_value, FMul(margin, params.trading_fee)),
                price,
                IF FGt(last_equity.pos_size, F(0))
                THEN FAdd(last_equity.pos_size, q) ELSE q,
                FSub(last_equity.cash_aval, order_cost(margin)))
    IN  send(process_order(m, order), EventEquity(equity))
buy(m, item, price, timestamp, qty) ==
    LET margin == order_margin(qty)
        last_equity == last_equity_of(m.ctx, item, timestamp)
    IN  IF accepts(m.ctx, item, timestamp, qty)
        THEN LET q == FDiv(margin, price)
                 order == Order(item, price, q, timestamp)
                 equity ==
                     Equity(item, timestamp,
                         FSub(last_equity.equity_value, FMul(margin, params.trading_fee)),
                         price,
                         IF FGt(last_equity.pos_size, F(0))
                         THEN FAdd(last_equity.pos_size, q) ELSE q,
                         FSub(last_equity.cash_aval, order_cost(margin)))
             IN  send(process_order(m, order), EventEquity(equity))
        ELSE m

sell(m, item, price, timestamp, qty) ==
    LET margin == order_margin(qty)
        last_equity == last_equity_of(m.ctx, item, timestamp)
    IN  IF accepts(m.ctx, item, timestamp, qty)
        THEN LET q == FDiv(FNeg(margin), price)
                 order == Order(item, price, q, timestamp)
                 equity ==
                     Equity(item, timestamp,
                         FSub(last_equity.equity_value, FMul(margin, params.trading_fee)),
                         price,
                         IF FLt(last_equity.pos_size, F(0))
                         THEN FAdd(last_equity.pos_size, q) ELSE q,
                         FSub(last_equity.cash_aval, order_cost(margin)))
             IN  send(process_order(m, order), EventEquity(equity))
        ELSE m

\* ------------------------------------------------------------- callbacks --
\* The strategy is the pluggable part.  Its on_candle is modelled as any
\* choice of the calls into the runtime that on_candle of stg_price_channel.rs
\* makes: update_atr, buy and sell on the Candle's item, at the Candle's close
\* and timestamp.  The other callbacks only log.

Op(op, qty) == [op |-> op, qty |-> qty]

\* what on_candle does at one Candle: it may cache the ATR, then buy, then sell
\* (stg_price_channel.rs: update_atr, buy when the high is the highest, sell
\* when the low is the lowest), with one quantity argument for both calls
Decision(atr, do_buy, do_sell, qty) ==
    (IF atr THEN <<Op("update_atr", <<>>)>> ELSE <<>>)
    \o (IF do_buy THEN <<Op("buy", qty)>> ELSE <<>>)
    \o (IF do_sell THEN <<Op("sell", qty)>> ELSE <<>>)

Decisions ==
    {Decision(a, b, s, q) : a \in BOOLEAN, b \in BOOLEAN, s \in BOOLEAN, q \in QtyArgs}

\* the decisions on_candle takes for a Candle of item.  update_atr with the
\* value that is cached already changes nothing, so once the item has its ATR
\* on_candle is taken to cache it at every Candle, as stg_price_channel.rs does
DecisionsAt(ctx, item) ==
    {d \in Decisions :
        get_atr(ctx, item) # <<>> => (d # <<>> /\ d[1].op = "update_atr")}

\* one call of the strategy into the runtime; st = [m, log], log the history
\* of the buy/sell calls made
call(st, candle, op) ==
    LET item == ItemOf(candle.symbol, candle.interval)
        m == st.m
    IN  IF op.op = "update_atr"
        THEN [st EXCEPT !.m.ctx = update_atr(@, item, AtrValue)]
        ELSE LET after == IF op.op = "buy"
                          THEN buy([m EXCEPT !.out = <<>>], item, candle.close,
                                   candle.timestamp, op.qty)
                          ELSE sell([m EXCEPT !.out = <<>>], item, candle.close,
                                    candle.timestamp, op.qty)
                 entry == [side |-> op.op, item |-> item, price |-> candle.close,
                           timestamp |-> candle.timestamp,
                           qty |-> op.qty, margin |-> order_margin(op.qty),
                           accepted |-> accepts(m.ctx, item, candle.timestamp, op.qty),
                           pre |-> m.ctx, post |-> after.ctx, out |-> after.out]
             IN  [m |-> [after EXCEPT !.out = m.out \o after.out],
                  log |-> Append(st.log, entry)]

RECURSIVE on_candle(_, _, _)
on_candle(st, candle, ops) ==
    IF ops = <<>> THEN st
    ELSE on_candle(call(st, candle, Head(ops)), candle, Tail(ops))

Count(map, k) == IF k \in DOMAIN map THEN map[k] ELSE 0

Called(name) == callbacks' = Put(callbacks, name, Count(callbacks, name) + 1)

\* ------------------------------------------------------------- producers --
\* the decimal digits of a timestamp: timestamp.to_string().len()
RECURSIVE DecimalLen(_)
DecimalLen(n) == IF n < 0 THEN 1 + DecimalLen(-n)
                 ELSE IF n < 10 THEN 1 ELSE 1 + DecimalLen(n \div 10)

\* seconds are turned into milliseconds
NormalizeTimestamp(t) == IF DecimalLen(t) = 10 THEN t * 1000 ELSE t

\* mutant: the last bar is sent as well
ToSend_all(n) == n

\* the bars a producer sends of n fetched ones: all but the last
ToSend(n) == IF n >= 1 THEN n - 1 ELSE 0

\* where a producer task goes once interval number iv is done: to the next
\* interval, or to its end (fetched keeps the length of the last fetch)
AfterInterval(p) ==
    IF p.iv < Len(Intervals)
    THEN [p EXCEPT !.pc = "fetch", !.iv = @ + 1, !.sent = 0]
    ELSE [p EXCEPT !.pc = "done", !.sent = 0]

\* the Candles the producers of S have sent or are about to send
RECURSIVE SumTaken(_, _)
SumTaken(p, S) ==
    IF S = {} THEN 0
    ELSE LET s == CHOOSE x \in S : TRUE
         IN  p[s].taken + SumTaken(p, S \ {s})

\* mutant: a fetch without bars ends every producer task
Fetch_abort(s) ==
    /\ producer[s].pc = "fetch"
    /\ \E n \in 0..(MaxBars - SumTaken(producer, Symbols) + 1) :
         LET valid == Intervals[producer[s].iv] \in ValidIntervals
             p == [producer[s] EXCEPT !.fetched = IF valid THEN n ELSE 0,
                                      !.taken = @ + (IF valid THEN ToSend(n) ELSE 0),
                                      !.sent = 0]
         IN  producer' =
                 IF p.fetched = 0
                 THEN [t \in Symbols |->
                          IF t = s THEN AfterInterval(p)
                          ELSE [producer[t] EXCEPT !.pc = "done"]]
                 ELSE [producer EXCEPT ![s] =
                          IF ToSend(p.fetched) = 0 THEN AfterInterval(p)
                          ELSE [p EXCEPT !.pc = "emit"]]
    /\ UNCHANGED <<params, context, bus, outbox, pc, idle, emitted, decided,
                   margins, calls, callbacks, finish_sent>>
\* get_candles returns: n bars (none when the query fails)
Fetch(s) ==
    /\ producer[s].pc = "fetch"
    /\ \E n \in 0..(MaxBars - SumTaken(producer, Symbols) + 1) :
         LET valid == Intervals[producer[s].iv] \in ValidIntervals
             p == [producer[s] EXCEPT !.fetched = IF valid THEN n ELSE 0,
                                      !.taken = @ + (IF valid THEN ToSend(n) ELSE 0),
                                      !.sent = 0]
         IN  producer' = [producer EXCEPT ![s] =
                 IF ToSend(p.fetched) = 0 THEN AfterInterval(p)
                 ELSE [p EXCEPT !.pc = "emit"]]
    /\ UNCHANGED <<params, context, bus, outbox, pc, idle, emitted, decided,
                   margins, calls, callbacks, finish_sent>>

\* the producer of s sends its next Candle
Emit(s) ==
    /\ producer[s].pc = "emit"
    /\ LET p == producer[s]
           interval == Intervals[p.iv]
           c == Candle(s, interval, NormalizeTimestamp(p.sent + 1),
                       CloseOf(p.sent + 1))
           q == [p EXCEPT !.sent = @ + 1]
       IN  /\ bus' = Append(bus, EventCandle(c))
           /\ emitted' = PushTo(emitted, ItemOf(s, interval), c)
           /\ producer' = [producer EXCEPT ![s] =
                  IF q.sent = ToSend(q.fetched) THEN AfterInterval(q) ELSE q]
    /\ UNCHANGED <<params, context, outbox, pc, idle, decided, margins, calls,
                   callbacks, finish_sent>>

\* --------------------------------------------------------------- runtime --
\* Duration::from_secs(20) of handle_events
QuiescenceSecs == 20

\* mutant: only the first item is seeded
SeedItems_first_only(ctx, items, timestamp) ==
    IF items = {} THEN ctx
    ELSE LET item == CHOOSE i \in items : TRUE
         IN  update_position(
                 push_equity(ctx,
                     Equity(item, timestamp, params.initial_capital, F(0), F(0),
                            params.initial_capital)),
                 Position(item, F(0), F(0), F(0), F(0), F(0), F(0), timestamp))

\* Strategy::init: seeds an Equity and a flat Position per item, then on_init
RECURSIVE SeedItems(_, _, _)
SeedItems(ctx, items, timestamp) ==
    IF items = {} THEN ctx
    ELSE LET item == CHOOSE i \in items : TRUE
             seeded ==
                 update_position(
                     push_equity(ctx,
                         Equity(item, timestamp, params.initial_capital, F(0), F(0),
                                params.initial_capital)),
                     Position(item, F(0), F(0), F(0), F(0), F(0), F(0), timestamp))
         IN  SeedItems(seeded, items \ {item}, timestamp)

RunInit ==
    /\ pc = "new"
    /\ \E timestamp \in WallClockMs :
         context' = SeedItems(context, Items, timestamp)
    /\ Called("on_init")
    /\ pc' = "init"
    /\ UNCHANGED <<params, bus, outbox, idle, producer, emitted, decided, margins,
                   calls, finish_sent>>

\* Strategy::run after init: spawns the broker task, which spawns one task per
\* symbol, and enters handle_events (start_time = now)
Spawn ==
    /\ pc = "init"
    /\ producer' = [s \in Symbols |-> [producer[s] EXCEPT !.pc = "fetch"]]
    /\ idle' = 0
    /\ pc' = "loop"
    /\ UNCHANGED <<params, context, bus, outbox, emitted, decided, margins, calls,
                   callbacks, finish_sent>>

\* the senders of the channel that are alive: the runtime's own
\* (Strategy.broker), the broker task's clone and one clone per producer task
\* mutant: only the producer side holds senders
Senders_producers_only ==
    (IF \E s \in Symbols : producer[s].pc \in {"fetch", "emit"} THEN 1 ELSE 0)
      + Cardinality({s \in Symbols : producer[s].pc \in {"fetch", "emit"}})

\* the senders alive: the runtime's own (Strategy.broker.event_sender), the
\* clone moved into the producer task, and one per producer still running
Senders ==
    1 + (IF \E s \in Symbols : producer[s].pc \in {"fetch", "emit"} THEN 1 ELSE 0)
      + Cardinality({s \in Symbols : producer[s].pc \in {"fetch", "emit"}})

\* time passes while the loop finds the channel empty (start_time is reset at
\* every receive, and read only when try_recv returns Empty)
Tick ==
    /\ pc = "loop"
    /\ bus = <<>>
    /\ outbox = <<>>
    /\ idle <= QuiescenceSecs
    /\ idle' = idle + TickSecs
    /\ UNCHANGED <<params, context, bus, outbox, pc, producer, emitted, decided,
                   margins, calls, callbacks, finish_sent>>

\* a send of the dispatch loop's task reaches the channel
Flush ==
    /\ outbox # <<>>
    /\ bus' = Append(bus, Head(outbox))
    /\ outbox' = Tail(outbox)
    /\ UNCHANGED <<params, context, pc, idle, producer, emitted, decided, margins,
                   calls, callbacks, finish_sent>>

\* mutant: events are received also after the loop has ended
Receives_after_break(type) ==
    /\ pc \in {"loop", "join"}
    /\ outbox = <<>>
    /\ bus # <<>>
    /\ Head(bus).type = type
    /\ bus' = Tail(bus)
    /\ idle' = 0
\* try_recv returns Ok(event): the loop is at its top and the channel holds one
Receives(type) ==
    /\ pc = "loop"
    /\ outbox = <<>>
    /\ bus # <<>>
    /\ Head(bus).type = type
    /\ bus' = Tail(bus)
    /\ idle' = 0

\* mutant: the loop goes on after on_finish
DispatchFinish_no_break ==
    /\ Receives("EventFinish")
    /\ Called("on_finish")
    /\ pc' = "loop"
    /\ calls' = <<>>
    /\ UNCHANGED <<params, context, outbox, producer, emitted, decided, margins,
                   finish_sent>>

DispatchFinish ==
    /\ Receives("EventFinish")
    /\ Called("on_finish")
    /\ pc' = "join"
    /\ calls' = <<>>
    /\ UNCHANGED <<params, context, outbox, producer, emitted, decided, margins,
                   finish_sent>>

AcceptedMargins(log) ==
    SelectSeq(log, LAMBDA e : e.accepted)

RECURSIVE PushMargins(_, _)
PushMargins(map, log) ==
    IF log = <<>> THEN map
    ELSE PushMargins(PushTo(map, Head(log).item, Head(log).margin), Tail(log))

DispatchCandle ==
    /\ Receives("EventCandle")
    /\ \E ops \in DecisionsAt(context, ItemOf(Head(bus).v.symbol,
                                               Head(bus).v.interval)) :
         LET candle == Head(bus).v
             item == ItemOf(candle.symbol, candle.interval)
             st == on_candle([m |-> [ctx |-> push_candle(context, candle), out |-> <<>>],
                              log |-> <<>>],
                             candle, ops)
         IN  /\ context' = st.m.ctx
             /\ outbox' = st.m.out
             /\ calls' = st.log
             /\ decided' = PushTo(decided, item, ops)
             /\ margins' = PushMargins(margins, AcceptedMargins(st.log))
    /\ Called("on_candle")
    /\ UNCHANGED <<params, pc, producer, emitted, finish_sent>>

DispatchPosition ==
    /\ Receives("EventPosition")
    /\ Called("on_position")
    /\ calls' = <<>>
    /\ UNCHANGED <<params, context, outbox, pc, producer, emitted, decided, margins,
                   finish_sent>>

DispatchOrder ==
    /\ Receives("EventOrder")
    /\ Called("on_order")
    /\ calls' = <<>>
    /\ UNCHANGED <<params, context, outbox, pc, producer, emitted, decided, margins,
                   finish_sent>>

DispatchEquity ==
    /\ Receives("EventEquity")
    /\ context' = push_equity(context, Head(bus).v)
    /\ Called("on_equity")
    /\ calls' = <<>>
    /\ UNCHANGED <<params, outbox, pc, producer, emitted, decided, margins,
                   finish_sent>>

\* mutant: on_trade_record is called before the record is in the context
DispatchTradeRecord_callback_only ==
    /\ Receives("EventTradeRecord")
    /\ Called("on_trade_record")
    /\ calls' = <<>>
    /\ UNCHANGED <<params, context, outbox, pc, producer, emitted, decided,
                   margins, finish_sent>>
DispatchTradeRecord ==
    /\ Receives("EventTradeRecord")
    /\ context' = push_trade_record(context, Head(bus).v)
    /\ Called("on_trade_record")
    /\ calls' = <<>>
    /\ UNCHANGED <<params, outbox, pc, producer, emitted, decided, margins,
                   finish_sent>>

\* mutant: every empty poll sends a Finish, whatever the idle time
PollEmpty_no_timer ==
    /\ pc = "loop"
    /\ outbox = <<>>
    /\ bus = <<>>
    /\ outbox' = <<EventFinish>>
    /\ finish_sent' = finish_sent + 1
    /\ UNCHANGED <<params, context, bus, pc, idle, producer, emitted, decided,
                   margins, calls, callbacks>>
\* try_recv returns Empty, or Disconnected when no sender is left
PollEmpty ==
    /\ pc = "loop"
    /\ outbox = <<>>
    /\ bus = <<>>
    /\ IF Senders = 0
       THEN pc' = "join" /\ UNCHANGED <<outbox, finish_sent>>
       ELSE IF idle > QuiescenceSecs
       THEN /\ outbox' = <<EventFinish>>
            /\ finish_sent' = finish_sent + 1
            /\ pc' = pc
       ELSE UNCHANGED <<outbox, finish_sent, pc>>
    /\ UNCHANGED <<params, context, bus, idle, producer, emitted, decided, margins,
                   calls, callbacks>>

\* mutant: run returns only once the channel has been emptied
Join_drained ==
    /\ pc = "join"
    /\ bus = <<>>
    /\ \A s \in Symbols : producer[s].pc = "done"
    /\ pc' = "returned"
    /\ UNCHANGED <<params, context, bus, outbox, idle, producer, emitted, decided,
                   margins, calls, callbacks, finish_sent>>
\* producer_handle.await: run returns once every producer task has ended
Join ==
    /\ pc = "join"
    /\ \A s \in Symbols : producer[s].pc = "done"
    /\ pc' = "returned"
    /\ UNCHANGED <<params, context, bus, outbox, idle, producer, emitted, decided,
                   margins, calls, callbacks, finish_sent>>

\* ---------------------------------------------------------- specification --
Init ==
    /\ params \in {[StrategyParams EXCEPT !.is_use_percent_of_equity = b] :
                      b \in BOOLEAN}
    /\ context = ContextNew
    /\ bus = <<>>
    /\ outbox = <<>>
    /\ pc = "new"
    /\ idle = 0
    /\ producer = [s \in Symbols |-> [pc |-> "unspawned", iv |-> 1, fetched |-> 0,
                                      taken |-> 0, sent |-> 0]]
    /\ emitted = EmptyMap
    /\ decided = EmptyMap
    /\ margins = EmptyMap
    /\ calls = <<>>
    /\ callbacks = [x \in {} |-> 0]
    /\ finish_sent = 0

Next ==
    \/ RunInit
    \/ Spawn
    \/ \E s \in Symbols : Fetch(s)
    \/ \E s \in Symbols : Emit(s)
    \/ Tick
    \/ Flush
    \/ DispatchFinish
    \/ DispatchCandle
    \/ DispatchPosition
    \/ DispatchOrder
    \/ DispatchEquity
    \/ DispatchTradeRecord
    \/ PollEmpty
    \/ Join

Spec == Init /\ [][Next]_vars

\* the dispatch loop never stops polling, the sends it has started complete,
\* and time passes
Consumer ==
    \/ Flush
    \/ DispatchFinish
    \/ DispatchCandle
    \/ DispatchPosition
    \/ DispatchOrder
    \/ DispatchEquity
    \/ DispatchTradeRecord
    \/ PollEmpty

FairSpec == Spec /\ WF_vars(Consumer) /\ WF_vars(Tick)

\* the tasks of the multi-threaded runtime all make progress: the start of
\* run, every producer task, the dispatch loop, and the final wait of run
FairRunSpec ==
    /\ FairSpec
    /\ WF_vars(RunInit)
    /\ WF_vars(Spawn)
    /\ \A s \in Symbols : WF_vars(Fetch(s)) /\ WF_vars(Emit(s))
    /\ WF_vars(Join)
History(map, item) == IF item \in DOMAIN map THEN map[item] ELSE <<>>

\* what the dispatch of an event does to the context
ApplyEvent(ctx, event) ==
    IF event.type = "EventEquity" THEN push_equity(ctx, event.v)
    ELSE IF event.type = "EventTradeRecord" THEN push_trade_record(ctx, event.v)
    ELSE ctx

RECURSIVE Drain(_, _)
Drain(ctx, events) ==
    IF events = <<>> THEN ctx
    ELSE Drain(ApplyEvent(ctx, Head(events)), Tail(events))

\* ------------------------------------------------ the engine, one Candle
\* at a time --
\* The runtime with the parameters of main.rs as well, and a strategy that
\* passes quantity arguments: each item gets one Candle, and every event its
\* on_candle sends is dispatched before another Candle is sent.

\* the StrategyParams of main.rs
MainParams ==
    [initial_capital              |-> F(4000),
     is_use_percent_of_equity     |-> FALSE,
     percent_of_equity            |-> Frac(1, 2),
     percent_of_every_trade_money |-> Frac(3, 100),
     n_atr_sl                     |-> F(2),
     n_atr_tp                     |-> F(5),
     trading_fee                  |-> Frac(1, 1000)]

\* the quantity arguments of buy and sell: None, zero, negative, below, at
\* and above the default order sizes (100, 120 and 125)
QtyRequests ==
    {<<>>, <<F(0)>>, <<F(0 - 10)>>, <<F(40)>>, <<F(100)>>, <<F(120)>>, <<F(150)>>}

\* the closes of the Candles
Prices == {F(50), F(100)}

\* on_candle caches the ATR, as that of stg_price_channel.rs does at every
\* Candle it trades on
RequestDecisions ==
    {Decision(TRUE, b, s, q) : b \in BOOLEAN, s \in BOOLEAN, q \in QtyRequests}

\* run() has seeded the context and entered the loop
SerialInit ==
    /\ params \in {[StrategyParams EXCEPT !.is_use_percent_of_equity = b] :
                      b \in BOOLEAN} \cup {MainParams}
    /\ \E timestamp \in WallClockMs :
         context = SeedItems(ContextNew, Items, timestamp)
    /\ bus = <<>>
    /\ outbox = <<>>
    /\ pc = "loop"
    /\ idle = 0
    /\ producer = [s \in Symbols |-> [pc |-> "fetch", iv |-> 1, fetched |-> 0,
                                      taken |-> 0, sent |-> 0]]
    /\ emitted = EmptyMap
    /\ decided = EmptyMap
    /\ margins = EmptyMap
    /\ calls = <<>>
    /\ callbacks = [x \in {} |-> 0] @@ ("on_init" :> 1)
    /\ finish_sent = 0

\* the first Candle of an item is sent and dispatched, and then every event
\* its on_candle has sent
SerialCandle(s) ==
    LET item == ItemOf(s, Intervals[1])
    IN  /\ History(emitted, item) = <<>>
        /\ \E close \in Prices, ops \in RequestDecisions :
             LET candle == Candle(s, Intervals[1], NormalizeTimestamp(1), close)
                 st == on_candle([m |-> [ctx |-> push_candle(context, candle),
                                         out |-> <<>>],
                                  log |-> <<>>],
                                 candle, ops)
             IN  /\ context' = Drain(st.m.ctx, st.m.out)
                 /\ calls' = st.log
                 /\ decided' = PushTo(decided, item, ops)
                 /\ margins' = PushMargins(margins, AcceptedMargins(st.log))
                 /\ emitted' = PushTo(emitted, item, candle)
        /\ Called("on_candle")
        /\ UNCHANGED <<params, bus, outbox, pc, idle, producer, finish_sent>>

SerialNext == \E s \in Symbols : SerialCandle(s)

SerialSpec == SerialInit /\ [][SerialNext]_vars

\* ------------------------------------------------------------ properties --
EngineTypes == {"EventPosition", "EventOrder", "EventEquity", "EventTradeRecord"}

OfType(events, type) == SelectSeq(events, LAMBDA e : e.type = type)

Ran(name) == Count(callbacks, name)

LoopEnded == pc \in {"join", "returned"}

FGe(x, y) == x = y \/ FGt(x, y)

\* the cash the check of a call made in context ctx compares the cost with
CashOf(ctx, item) ==
    IF get_last_equity(ctx, item) # <<>> THEN get_last_equity(ctx, item)[1].cash_aval
    ELSE params.initial_capital

CostOf(e) == FMul(e.margin, FAdd(F(1), params.trading_fee))

\* C1: whenever a Candle is the next event the loop dispatches, no
\* Order/Position/Equity/TradeRecord event that an earlier on_candle generated
\* is still waiting in the channel.
C1_GeneratedEventsDrainFirst ==
    (pc = "loop" /\ outbox = <<>> /\ bus # <<>> /\ Head(bus).type = "EventCandle")
        => \A j \in 1..Len(bus) : bus[j].type \notin EngineTypes

\* C2: a buy or sell whose margin*(1+fee_rate) is at least the latest cash_aval
\* of the item sends no event and leaves the context as it was.
C2_RejectedOrderIsNoOp ==
    \A i \in 1..Len(calls) :
        FGe(CostOf(calls[i]), CashOf(calls[i].pre, calls[i].item))
            => calls[i].out = <<>> /\ calls[i].post = calls[i].pre

\* C2, its case: a call was rejected because the cost equals the cash
C2_Witness ==
    \E i \in 1..Len(calls) :
        /\ CostOf(calls[i]) = CashOf(calls[i].pre, calls[i].item)
        /\ calls[i].out = <<>>

\* C3: every Equity record a fill appended has the cash_aval of the record
\* before it minus margin*(1+fee_rate), and its equity_value minus
\* margin*fee_rate.
C3_EquityChain ==
    \A item \in DOMAIN context.equities :
        \A k \in 2..Len(context.equities[item]) :
            LET eq == context.equities[item][k]
                before == context.equities[item][k - 1]
                margin == margins[item][k - 1]
            IN  /\ eq.cash_aval =
                       FSub(before.cash_aval, FMul(margin, FAdd(F(1), params.trading_fee)))
                /\ eq.equity_value =
                       FSub(before.equity_value, FMul(margin, params.trading_fee))

IsClosed(tr) == tr.time_close # 0

\* C4: every trade record of an item but the last one is closed.
C4_OnlyTailOpen ==
    \A item \in DOMAIN context.trade_records :
        \A i \in 1..(Len(context.trade_records[item]) - 1) :
            IsClosed(context.trade_records[item][i])

\* C5: a fill changes no trade record that was closed before it.
C5_ClosedRecordFrozen ==
    \A c \in 1..Len(calls) :
        LET before == calls[c].pre.trade_records
            after == calls[c].post.trade_records
        IN  \A item \in DOMAIN before :
                \A i \in 1..Len(before[item]) :
                    IsClosed(before[item][i]) => after[item][i] = before[item][i]

TimedOut == pc = "loop" /\ bus = <<>> /\ outbox = <<>> /\ idle > QuiescenceSecs

\* C6: the loop sends at most one Finish event and runs on_finish at most
\* once; when it finds the channel empty for longer than the quiescence
\* timeout it ends, having sent exactly one Finish and run on_finish once.
C6_OneFinish ==
    /\ [](finish_sent <= 1 /\ Ran("on_finish") <= 1)
    /\ [](LoopEnded => finish_sent = 1 /\ Ran("on_finish") = 1)
    /\ (TimedOut ~> (LoopEnded /\ finish_sent = 1 /\ Ran("on_finish") = 1))

\* C6, its case: the loop has ended on the Finish event it sent after a timeout
C6_Witness == LoopEnded /\ finish_sent = 1 /\ Ran("on_finish") = 1

CandlesIn(events, item) ==
    LET cs == SelectSeq(events,
                  LAMBDA e : e.type = "EventCandle"
                             /\ ItemOf(e.v.symbol, e.v.interval) = item)
    IN  [i \in 1..Len(cs) |-> cs[i].v]

\* C7: when on_finish runs, every producer task has ended and every Candle
\* sent is in the bar history.
C7_FinishAfterProducers ==
    Ran("on_finish") > 0 =>
        /\ \A s \in Symbols : producer[s].pc = "done"
        /\ \A item \in Items :
               History(context.candles, item) = History(emitted, item)

\* C8: the bar history of an item, followed by the Candles of the item still
\* in the channel, is the sequence of Candles the producer sent for the item.
C8_BarHistoryIsEmittedPrefix ==
    \A item \in Items :
        History(emitted, item) =
            History(context.candles, item) \o CandlesIn(bus, item)

\* C8, its case: two Candles of one item have been dispatched
C8_Witness ==
    \E item \in Items :
        /\ Len(History(context.candles, item)) = 2
        /\ History(context.candles, item) = History(emitted, item)

\* the bars of one item replayed one at a time: each Candle is dispatched and
\* the events its on_candle generated are dispatched before the next Candle
RECURSIVE SerialItem(_, _, _)
SerialItem(ctx, bars, ops) ==
    IF bars = <<>> THEN ctx
    ELSE LET st == on_candle([m |-> [ctx |-> push_candle(ctx, Head(bars)),
                                     out |-> <<>>],
                              log |-> <<>>],
                             Head(bars), Head(ops))
         IN  SerialItem(Drain(st.m.ctx, st.m.out), Tail(bars), Tail(ops))

RECURSIVE SerialRun(_, _)
SerialRun(ctx, items) ==
    IF items = {} THEN ctx
    ELSE LET item == CHOOSE i \in items : TRUE
         IN  SerialRun(SerialItem(ctx, History(emitted, item), History(decided, item)),
                       items \ {item})

Seeded == SeedItems(ContextNew, Items, CHOOSE t \in WallClockMs : TRUE)

SameOutcome(ctx, ref) ==
    /\ ctx.positions = ref.positions
    /\ ctx.equities = ref.equities
    /\ ctx.trade_records = ref.trade_records

\* the run is over and every event sent has been dispatched
RunComplete ==
    /\ LoopEnded
    /\ bus = <<>>
    /\ outbox = <<>>
    /\ \A s \in Symbols : producer[s].pc = "done"
    /\ \A item \in Items :
           /\ History(context.candles, item) = History(emitted, item)
           /\ Len(History(decided, item)) = Len(History(emitted, item))

\* C9: a complete run ends with the positions, equity histories and
\* trade-record histories that its bars and its strategy decisions determine:
\* those of the run that dispatches the same Candles one at a time.
C9_OutcomeDeterminedByBars ==
    RunComplete => SameOutcome(context, SerialRun(Seeded, Items))

\* C9, the other outcome: a complete run of two buys on one item that ends as
\* the one-at-a-time run does
C9_SerialOutcomeReached ==
    /\ RunComplete
    /\ \E item \in Items :
           History(decided, item) = <<<<Op("buy", <<>>)>>, <<Op("buy", <<>>)>>>>
    /\ SameOutcome(context, SerialRun(Seeded, Items))

IsAccepted(e) == FLt(CostOf(e), CashOf(e.pre, e.item))

\* C10: an accepted buy or sell sends exactly one Order event and exactly one
\* Equity event, both for the call's item; the Order has the call's price and
\* timestamp and qty = margin/price for a buy, -margin/price for a sell.
C10_OneOrderOneEquity ==
    \A i \in 1..Len(calls) :
        LET e == calls[i]
            orders == OfType(e.out, "EventOrder")
            equities == OfType(e.out, "EventEquity")
            qty == IF e.side = "buy" THEN FDiv(e.margin, e.price)
                   ELSE FDiv(FNeg(e.margin), e.price)
        IN  IsAccepted(e) =>
                /\ Len(orders) = 1
                /\ Len(equities) = 1
                /\ orders[1].v = Order(e.item, e.price, qty, e.timestamp)
                /\ equities[1].v.item = e.item

\* C10, its case: one callback has made an accepted buy and an accepted sell
C10_Witness ==
    \E i, j \in 1..Len(calls) :
        /\ calls[i].side = "buy" /\ IsAccepted(calls[i]) /\ calls[i].out # <<>>
        /\ calls[j].side = "sell" /\ IsAccepted(calls[j]) /\ calls[j].out # <<>>

\* the signed quantity of the fill of call e
FillQty(e) ==
    IF e.side = "buy" THEN FDiv(e.margin, e.price) ELSE FDiv(FNeg(e.margin), e.price)

\* C11: every accepted fill sends exactly one Position event and leaves it as
\* the item's Position in the context, stamped with the fill's timestamp,
\* whether or not an ATR is cached for the item.
C11_FillUpdatesPosition ==
    \A i \in 1..Len(calls) :
        LET e == calls[i]
            positions == OfType(e.out, "EventPosition")
        IN  IsAccepted(e) =>
                /\ Len(positions) = 1
                /\ get_position(e.post, e.item) = <<positions[1].v>>
                /\ positions[1].v.timestamp = e.timestamp

\* the fill of call e is applied to the item's position: process_order found
\* a position and a cached ATR
PositionApplied(e) ==
    /\ IsAccepted(e)
    /\ get_position(e.pre, e.item) # <<>>
    /\ get_atr(e.pre, e.item) # <<>>

MeetsOpenTail(e, same_sign) ==
    /\ IsAccepted(e)
    /\ get_last_trade_record(e.pre, e.item) # <<>>
    /\ ~IsClosed(get_last_trade_record(e.pre, e.item)[1])
    /\ FGt(FMul(get_last_trade_record(e.pre, e.item)[1].size, FillQty(e)), F(0))
           = same_sign

\* C13: a fill of the sign of the item's open tail trade record replaces that
\* tail by the merged record (sizes added, size-weighted open price, the
\* fill's timestamp as time_open, not closed), leaves every other record and
\* the length of the history alone, and sends no TradeRecord event.
C13_SameSignMergesTail ==
    \A i \in 1..Len(calls) :
        LET e == calls[i]
            q == FillQty(e)
            before == e.pre.trade_records[e.item]
            after == e.post.trade_records[e.item]
            tail == before[Len(before)]
            merged == [tail EXCEPT
                          !.size = FAdd(tail.size, q),
                          !.price_open =
                              FDiv(FAdd(FMul(tail.price_open, tail.size),
                                        FMul(e.price, q)),
                                   FAdd(tail.size, q)),
                          !.time_open = e.timestamp]
        IN  MeetsOpenTail(e, TRUE) =>
                /\ after = [before EXCEPT ![Len(before)] = merged]
                /\ ~IsClosed(after[Len(after)])
                /\ OfType(e.out, "EventTradeRecord") = <<>>

\* C13, its case: a fill has been merged into an open tail
C13_Witness ==
    \E i \in 1..Len(calls) :
        /\ MeetsOpenTail(calls[i], TRUE)
        /\ calls[i].post.trade_records # calls[i].pre.trade_records

\* the events the calls of log have sent, in order
RECURSIVE AllOut(_)
AllOut(log) == IF log = <<>> THEN <<>> ELSE Head(log).out \o AllOut(Tail(log))

\* the TradeRecord events of item among events
RecordsIn(events, item) ==
    SelectSeq(events, LAMBDA ev : ev.type = "EventTradeRecord" /\ ev.v.item = item)

\* on_candle has just returned: none of the events it sent has been received
JustHandled == calls # <<>> /\ outbox = AllOut(calls)

\* call e has closed the item's tail in place (price_close and time_close of
\* the fill, label "Close") and sent exactly one TradeRecord event, for the new
\* open record of the fill (side of its sign, size q, price_open p)
ClosesAndOpens(e) ==
    LET q == FillQty(e)
        before == e.pre.trade_records[e.item]
        after == e.post.trade_records[e.item]
        tail == before[Len(before)]
        closed == [tail EXCEPT !.price_close = e.price,
                               !.time_close = e.timestamp,
                               !.label_close = "Close"]
        opened == TradeRecord(e.item, IF FGt(q, F(0)) THEN "buy" ELSE "sell",
                              q, e.price, e.timestamp, F(0), 0, "")
    IN  /\ after = [before EXCEPT ![Len(before)] = closed]
        /\ RecordsIn(e.out, e.item) = <<EventTradeRecord(opened)>>
        /\ OfType(e.out, "EventTradeRecord") = RecordsIn(e.out, e.item)

\* C14: a fill of the sign opposite to the item's open tail trade record closes
\* that tail in place and sends exactly one TradeRecord event, for the new open
\* record.  The history the fill saw is exactly one record longer once that
\* event is dispatched: TradeRecord events only append, so no TradeRecord
\* event of the item is waiting ahead of it.
C14_OppositeSignClosesTail ==
    \A i \in 1..Len(calls) :
        MeetsOpenTail(calls[i], FALSE) =>
            /\ ClosesAndOpens(calls[i])
            /\ JustHandled =>
                   /\ RecordsIn(bus, calls[i].item) = <<>>
                   /\ \A j \in 1..(i - 1) :
                          RecordsIn(calls[j].out, calls[i].item) = <<>>

\* C14, what the call itself does
C14_TailClosedInPlace ==
    \A i \in 1..Len(calls) :
        MeetsOpenTail(calls[i], FALSE) => ClosesAndOpens(calls[i])

\* the one Candle of item dispatched so far had on_candle call buy and then
\* sell, both accepted: a buy and, as the next fill, a sell of the same size
BoughtThenSold(item) ==
    /\ Len(History(decided, item)) = 1
    /\ \E a \in BOOLEAN, q \in QtyArgs : decided[item][1] = Decision(a, TRUE, TRUE, q)
    /\ Len(History(margins, item)) = 2
    /\ margins[item][1] = margins[item][2]

\* no event is on its way to the loop
Drained == bus = <<>> /\ outbox = <<>>

\* C15: after a buy and then a sell of the same size on an item, with every
\* event dispatched, the buy's trade record is closed at the sell's price and
\* time, an open sell record is the tail, and the item's position has size -q
\* and the sell's price.
C15_BuyThenSellFlips ==
    \A item \in Items :
        (BoughtThenSold(item) /\ Drained) =>
            LET candle == context.candles[item][1]
                q == FDiv(margins[item][2], candle.close)
                records == History(context.trade_records, item)
            IN  /\ Len(records) = 2
                /\ records[1] = TradeRecord(item, "buy", q, candle.close,
                                            candle.timestamp, candle.close,
                                            candle.timestamp, "Close")
                /\ records[2] = TradeRecord(item, "sell", FNeg(q), candle.close,
                                            candle.timestamp, F(0), 0, "")
                /\ context.positions[item].size = FNeg(q)
                /\ context.positions[item].price = candle.close

\* the default order size buy and sell compute
DefaultOrderSize ==
    IF params.is_use_percent_of_equity
    THEN FMul(params.initial_capital, params.percent_of_equity)
    ELSE FMul(params.initial_capital, params.percent_of_every_trade_money)

\* C16: the margin of a buy or sell is the requested quantity when that is
\* positive and smaller than the default order size, and the default order
\* size otherwise (no request, zero, negative, equal or larger); it is never
\* larger than the default order size.
C16_MarginIsClampedRequest ==
    \A i \in 1..Len(calls) :
        LET e == calls[i]
            requested == IF e.qty # <<>> THEN e.qty[1] ELSE F(0)
        IN  /\ e.margin =
                   IF e.qty # <<>> /\ FLt(F(0), requested)
                                   /\ FLt(requested, DefaultOrderSize)
                   THEN requested ELSE DefaultOrderSize
            /\ ~FGt(e.margin, DefaultOrderSize)

\* C16, its case: an accepted fill whose request is below the default order
\* size
C16_Witness ==
    \E i \in 1..Len(calls) :
        /\ calls[i].qty = <<F(40)>>
        /\ calls[i].margin = F(40)
        /\ FLt(calls[i].margin, DefaultOrderSize)
        /\ IsAccepted(calls[i])
        /\ calls[i].out # <<>>

\* the equity value of the latest Equity of item, the initial capital if none
LatestEquityValue(ctx, item) ==
    IF get_last_equity(ctx, item) # <<>>
    THEN get_last_equity(ctx, item)[1].equity_value
    ELSE params.initial_capital

\* C17: the default order size, which a buy or sell without a quantity
\* argument commits, is percent_of_equity times the item's latest equity value
\* when is_use_percent_of_equity is set, and percent_of_every_trade_money times
\* the initial capital when it is not.
C17_DefaultSizeFollowsMode ==
    \A i \in 1..Len(calls) :
        LET e == calls[i]
        IN  e.qty = <<>> =>
                e.margin =
                    IF params.is_use_percent_of_equity
                    THEN FMul(params.percent_of_equity, LatestEquityValue(e.pre, e.item))
                    ELSE FMul(params.percent_of_every_trade_money,
                              params.initial_capital)

\* C17, the fixed mode alone
C17_FixedMode ==
    \A i \in 1..Len(calls) :
        (calls[i].qty = <<>> /\ ~params.is_use_percent_of_equity) =>
            calls[i].margin =
                FMul(params.percent_of_every_trade_money, params.initial_capital)

\* the seed Equity of item is the only one call e saw, and the item had no
\* trade record
FirstFill(e) ==
    /\ IsAccepted(e)
    /\ Len(History(e.pre.equities, e.item)) = 1
    /\ History(e.pre.trade_records, e.item) = <<>>
    /\ Len(History(margins, e.item)) = 1

\* C18: after the first accepted buy on an item, of margin m at price p, with
\* every event dispatched, the item's latest Equity has cash_aval C - m*(1+f),
\* equity_value C - m*f, pos_size m/p and close_latest p, and the item has
\* exactly one trade record: open, side buy, size m/p, price_open p.
C18_FirstBuy ==
    \A i \in 1..Len(calls) :
        LET e == calls[i]
            C == params.initial_capital
            f == params.trading_fee
            m == e.margin
            p == e.price
            latest == get_last_equity(context, e.item)[1]
        IN  (e.side = "buy" /\ FirstFill(e) /\ Drained) =>
                /\ Len(context.equities[e.item]) = 2
                /\ latest.cash_aval = FSub(C, FMul(m, FAdd(F(1), f)))
                /\ latest.equity_value = FSub(C, FMul(m, f))
                /\ latest.pos_size = FDiv(m, p)
                /\ latest.close_latest = p
                /\ History(context.trade_records, e.item) =
                       <<TradeRecord(e.item, "buy", FDiv(m, p), p, e.timestamp,
                                     F(0), 0, "")>>

\* C18, its case: with the parameters of main.rs (C = 4000, f = 0.001), a
\* first buy of m = 100 at p = 100 has left cash 3899.9, equity 3999.9, size 1
C18_Witness ==
    /\ params = MainParams
    /\ \E i \in 1..Len(calls) :
           /\ calls[i].side = "buy" /\ FirstFill(calls[i])
           /\ calls[i].margin = F(100) /\ calls[i].price = F(100)
           /\ get_last_equity(context, calls[i].item)[1].cash_aval = Frac(38999, 10)
           /\ get_last_equity(context, calls[i].item)[1].equity_value = Frac(39999, 10)
           /\ get_last_equity(context, calls[i].item)[1].pos_size = F(1)

\* item has a flat Position and exactly one Equity, worth the initial capital
SeedOf(item) ==
    /\ get_position(context, item) # <<>>
    /\ context.positions[item].size = F(0)
    /\ Len(History(context.equities, item)) = 1
    /\ context.equities[item][1].equity_value = params.initial_capital
    /\ context.equities[item][1].cash_aval = params.initial_capital

NothingStarted ==
    /\ \A s \in Symbols : producer[s].pc = "unspawned"
    /\ Ran("on_candle") = 0
    /\ context.candles = EmptyMap
    /\ bus = <<>>

\* C19: on_init runs exactly once, in init; when it has run, and until the
\* producers are spawned, every configured item has a flat Position and exactly
\* one Equity with equity_value = cash_aval = initial capital, no producer is
\* spawned and no Candle is dispatched; nothing starts before init.
C19_SeededBeforeStart ==
    /\ Ran("on_init") = (IF pc = "new" THEN 0 ELSE 1)
    /\ pc = "new" => NothingStarted
    /\ pc = "init" => NothingStarted /\ \A item \in Items : SeedOf(item)
    /\ pc # "new" =>
           \A item \in Items :
               /\ get_position(context, item) # <<>>
               /\ Len(History(context.equities, item)) >= 1
               /\ context.equities[item][1].cash_aval = params.initial_capital

\* C19, its case: init has returned and the producers are not spawned yet
C19_Witness ==
    /\ pc = "init"
    /\ Ran("on_init") = 1
    /\ \A item \in Items : SeedOf(item)

\* the first n of the bars the fetch for s and interval returned, as Candles
FetchedBars(s, interval, n) ==
    [k \in 1..n |-> Candle(s, interval, NormalizeTimestamp(k), CloseOf(k))]

\* C20: of the n bars a fetch returned, the producer sends all but the last as
\* Candle events, in the fetched order, max(n-1, 0) in all: while it is
\* sending it has sent the first bars, fewer than n, and when it is done it
\* has sent exactly the first n-1, nothing when n is 0 or 1.
C20_AllButLastBar ==
    \A s \in Symbols :
        LET p == producer[s]
            interval == Intervals[p.iv]
            sent == History(emitted, ItemOf(s, interval))
            n == p.fetched
        IN  /\ p.pc \in {"unspawned", "fetch"} => sent = <<>>
            /\ p.pc = "emit" =>
                   /\ Len(sent) < n - 1
                   /\ sent = FetchedBars(s, interval, Len(sent))
            /\ p.pc = "done" =>
                   /\ Len(sent) = (IF n - 1 > 0 THEN n - 1 ELSE 0)
                   /\ sent = FetchedBars(s, interval, Len(sent))

\* C20, its case: one producer fetched three bars and has sent the first two,
\* another fetched a single bar and has sent nothing
C20_Witness ==
    \E s, t \in Symbols :
        /\ producer[s].pc = "done" /\ producer[s].fetched = 3
        /\ Len(History(emitted, ItemOf(s, Intervals[1]))) = 2
        /\ producer[t].pc = "done" /\ producer[t].fetched = 1
        /\ History(emitted, ItemOf(t, Intervals[1])) = <<>>

\* ------------------------------------------------------------------- C21 --
\* the producer of s has ended after a fetch that returned no bar
FetchedNothing(s) == producer[s].pc = "done" /\ producer[s].fetched = 0

\* the producer of s has ended and sent every bar of its fetch but the last
SentAll(s) ==
    /\ producer[s].pc = "done"
    /\ Len(History(emitted, ItemOf(s, Intervals[Len(Intervals)])))
         = ToSend(producer[s].fetched)

\* C21: a producer whose fetch gave no bars (a failed query gives none) sends
\* no Candle; once that has happened the other producers still send all
\* their Candles, and the run ends by a dispatched Finish, on_finish invoked
C21_FailedFetchIsEmptyList ==
    /\ [](\A s \in Symbols :
            FetchedNothing(s)
              => History(emitted, ItemOf(s, Intervals[Len(Intervals)])) = <<>>)
    /\ \A s \in Symbols :
         FetchedNothing(s)
           ~> (/\ \A t \in Symbols \ {s} : SentAll(t)
               /\ pc = "returned"
               /\ Ran("on_finish") = 1)

C21_Witness ==
    /\ \E s \in Symbols :
         /\ FetchedNothing(s)
         /\ \E t \in Symbols \ {s} : SentAll(t) /\ producer[t].fetched >= 2
    /\ pc = "returned"
    /\ Ran("on_finish") = 1

\* ------------------------------------------------------------------- C23 --
\* the last element of a history, as an Option
LastOf(map, item) ==
    IF History(map, item) = <<>> THEN <<>>
    ELSE <<History(map, item)[Len(History(map, item))]>>

\* this step invokes the callback
Invokes(name) == Ran(name)' = Ran(name) + 1

\* C23: a step that invokes on_candle, on_equity or on_trade_record on a
\* received event has that event's payload at the end of the item's bar,
\* Equity or trade-record history of the context, and every buy or sell
\* called by on_candle reads a context whose last bar is that Candle
C23_ContextHoldsPayloadAtCallback ==
    /\ [][/\ Invokes("on_candle")
             => /\ bus # <<>>
                /\ Head(bus).type = "EventCandle"
                /\ LET c == Head(bus).v
                       item == ItemOf(c.symbol, c.interval)
                   IN  /\ LastOf(context'.candles, item) = <<c>>
                       /\ \A k \in DOMAIN calls' :
                            LastOf(calls'[k].pre.candles, item) = <<c>>
          /\ Invokes("on_equity")
             => /\ bus # <<>>
                /\ Head(bus).type = "EventEquity"
                /\ get_last_equity(context', Head(bus).v.item) = <<Head(bus).v>>
          /\ Invokes("on_trade_record")
             => /\ bus # <<>>
                /\ Head(bus).type = "EventTradeRecord"
                /\ get_last_trade_record(context', Head(bus).v.item)
                     = <<Head(bus).v>>]_vars

C23_Witness ==
    /\ Ran("on_candle") >= 1
    /\ Ran("on_equity") >= 1
    /\ Ran("on_trade_record") >= 1
    /\ calls = <<>>
    /\ \E item \in Items :
         /\ History(context.candles, item) # <<>>
         /\ Len(History(context.equities, item)) >= 2
         /\ History(context.trade_records, item) # <<>>

\* ------------------------------------------------------------------- C24 --
\* C24: once on_finish has been invoked, no step invokes a callback, changes
\* the context or takes an event off the channel: what is queued behind the
\* Finish stays there
C24_NothingAfterFinish ==
    [][Ran("on_finish") >= 1
         => /\ callbacks' = callbacks
            /\ context' = context
            /\ Len(bus') >= Len(bus)
            /\ SubSeq(bus', 1, Len(bus)) = bus]_vars

C24_Witness ==
    /\ Ran("on_finish") = 1
    /\ pc = "returned"
    /\ OfType(bus, "EventCandle") # <<>>

\* ------------------------------------------------------------------- C25 --
\* the Finish events sent and not yet received
FinishInFlight(b, o) == Len(OfType(b, "EventFinish")) + Len(OfType(o, "EventFinish"))

\* C25: a Finish is only ever sent by the dispatch loop, at a poll that found
\* the channel empty, more than QuiescenceSecs after the last receive (or the
\* start of the loop); and every receive, of a Candle as of an event that buy
\* or sell generated, restarts the idle timer
C25_FinishOnlyAfterQuiescence ==
    [][/\ (finish_sent' # finish_sent
             \/ FinishInFlight(bus', outbox') > FinishInFlight(bus, outbox))
          => /\ pc = "loop"
             /\ bus = <<>>
             /\ outbox = <<>>
             /\ idle > QuiescenceSecs
             /\ finish_sent' = finish_sent + 1
             /\ outbox' = <<EventFinish>>
             /\ bus' = <<>>
       /\ (bus # <<>> /\ bus' = Tail(bus)) => idle' = 0]_vars

C25_Witness ==
    /\ outbox = <<EventFinish>>
    /\ finish_sent = 1
    /\ idle > QuiescenceSecs
    /\ Ran("on_candle") >= 1
    /\ Ran("on_equity") >= 1

\* ------------------------------------------------------------------- C26 --
\* C26: with producers that send finitely many Candles and callbacks that
\* trade only in on_candle, every fair run receives a Finish, invokes
\* on_finish and returns from run, its wait for the producer task over
C26_RunReturns ==
    <>(/\ pc = "returned"
       /\ Ran("on_finish") = 1
       /\ \A s \in Symbols : producer[s].pc = "done")

C26_Witness ==
    /\ pc = "returned"
    /\ Ran("on_finish") = 1
    /\ Ran("on_candle") >= 1
    /\ Ran("on_order") >= 1
    /\ \E s \in Symbols : producer[s].fetched >= 2

\* ------------------------------------------------------------------- C27 --
\* the place of an event type in the order Order, Equity, Position,
\* TradeRecord
RankOf(type) ==
    CASE type = "EventOrder" -> 1
      [] type = "EventEquity" -> 2
      [] type = "EventPosition" -> 3
      [] type = "EventTradeRecord" -> 4
      [] OTHER -> 0

\* C27: the events an accepted buy sends are in the order Order, Equity,
\* Position, TradeRecord (so that the loop runs on_order, on_equity,
\* on_position, on_trade_record in that order)
C27_BuySendsOrderEquityPositionRecord ==
    \A k \in DOMAIN calls :
       (calls[k].side = "buy" /\ calls[k].accepted)
         => /\ OfType(calls[k].out, "EventOrder") # <<>>
            /\ OfType(calls[k].out, "EventEquity") # <<>>
            /\ \A i, j \in DOMAIN calls[k].out :
                 i < j => RankOf(calls[k].out[i].type) <= RankOf(calls[k].out[j].type)

\* ------------------------------------------------------------------- C28 --
\* the Position snapshots sent by one call of buy or sell
PositionsOf(e) == OfType(e.out, "EventPosition")

\* C28: every Position snapshot written by a fill for an item with cached
\* ATR A, a flip included, has stop_loss = price - n_atr_sl * A and
\* take_profit = price + n_atr_tp * A for its own price field, and the
\* division that computes it is not by zero
C28_StopsFromSnapshotPrice ==
    \A k \in DOMAIN calls :
       \A i \in DOMAIN PositionsOf(calls[k]) :
          LET e == calls[k]
              p == PositionsOf(e)[i].v
              A == get_atr(e.pre, e.item)[1]
              last_pos == get_position(e.pre, e.item)[1]
          IN  /\ FAdd(last_pos.size, FillQty(e)) # F(0)
              /\ p.stop_loss = FSub(p.price, FMul(params.n_atr_sl, A))
              /\ p.take_profit = FAdd(p.price, FMul(params.n_atr_tp, A))

\* ------------------------------------------------------------------- C29 --
\* C29: every Equity record, in the context or still on its way to it, has
\* cash_aval > 0 (the initial capital being positive), whatever calls were
\* accepted or rejected and however the events interleaved
C29_CashStaysPositive ==
    /\ \A item \in DOMAIN context.equities :
         \A k \in DOMAIN context.equities[item] :
            FGt(context.equities[item][k].cash_aval, F(0))
    /\ \A k \in DOMAIN OfType(bus \o outbox, "EventEquity") :
         FGt(OfType(bus \o outbox, "EventEquity")[k].v.cash_aval, F(0))

\* two fills of an item are in its Equity history, and the cash left does not
\* pay for another order
C29_Witness ==
    \E item \in Items :
       /\ Len(History(context.equities, item)) >= 3
       /\ ~accepts(context, item, 0, <<>>)
       /\ FGt(get_last_equity(context, item)[1].cash_aval, F(0))

\* ------------------------------------------------------------------- C30 --
\* C30: whenever the channel is empty, the pos_size of every item's latest
\* Equity equals the size of the item's Position
C30_EquityTracksPosition ==
    Drained =>
       \A item \in Items :
          (get_last_equity(context, item) # <<>> /\ get_position(context, item) # <<>>)
            => get_last_equity(context, item)[1].pos_size
                 = get_position(context, item)[1].size

\* ------------------------------------------------------------------- C31 --
\* what the context holds for one item
ItemView(ctx, item) ==
    [position |-> get_position(ctx, item),
     trade_records |-> History(ctx.trade_records, item),
     equities |-> History(ctx.equities, item),
     candles |-> History(ctx.candles, item),
     atr |-> get_atr(ctx, item)]

\* C31: a buy or sell on an item, and the dispatch of each event it
\* generated, leaves the Position, trade-record history, Equity history, bar
\* history and cached ATR of every other item as they were
C31_OtherItemsUntouched ==
    /\ [](\A k \in DOMAIN calls :
            \A B \in Items \ {calls[k].item} :
               ItemView(calls[k].post, B) = ItemView(calls[k].pre, B))
    /\ [][(/\ bus # <<>>
           /\ bus' = Tail(bus)
           /\ Head(bus).type \in EngineTypes)
            => \A B \in Items \ {Head(bus).v.item} :
                  ItemView(context', B) = ItemView(context, B)]_vars

\* a fill on one item has just been applied while another item has a fill of
\* its own in every part of the context
C31_Witness ==
    \E k \in DOMAIN calls :
       /\ calls[k].accepted
       /\ OfType(calls[k].out, "EventPosition") # <<>>
       /\ \E B \in Items \ {calls[k].item} :
            /\ get_position(context, B) # <<>>
            /\ get_position(context, B)[1].size # F(0)
            /\ History(context.trade_records, B) # <<>>
            /\ Len(History(context.equities, B)) >= 2
            /\ History(context.candles, B) # <<>>
            /\ get_atr(context, B) # <<>>

\* ------------------------------------------------------------------- C32 --
\* C32: the loop never finds the channel closed, as the runtime's own sender
\* is alive while it polls; the loop is only ever left by a step that takes
\* a Finish off the channel and invokes on_finish, so a run whose loop has
\* ended has invoked on_finish exactly once
C32_LoopEndsOnlyByFinish ==
    /\ [](pc = "loop" => Senders >= 1)
    /\ [](LoopEnded => Ran("on_finish") = 1)
    /\ [](~LoopEnded => Ran("on_finish") = 0)
    /\ [][(pc = "loop" /\ pc' # "loop")
            => /\ bus # <<>>
               /\ Head(bus) = EventFinish
               /\ bus' = Tail(bus)
               /\ Invokes("on_finish")]_vars

\* the loop has ended after it polled an empty channel with every producer
\* gone, and every Candle sent was dispatched before the Finish
C32_Witness ==
    /\ LoopEnded
    /\ Ran("on_finish") = 1
    /\ bus = <<>>
    /\ \A s \in Symbols : producer[s].pc = "done"
    /\ Ran("on_candle") >= 1
    /\ \A item \in DOMAIN emitted :
         History(context.candles, item) = emitted[item]

====
